---------------------------- MODULE Spec2Model ----------------------------
(***************************************************************************)
(* The incremental sync of the eBird integration: action_pull_events and   *)
(* its helpers (src/app/actions/handlers.py), with the two persisted       *)
(* states it keeps per integration, latest_observation_datetime (the       *)
(* observation watermark) and latest_execution_time.                       *)
(*                                                                         *)
(* Time is counted in ticks; a day has TicksPerDay ticks, so one tick is   *)
(* SECONDS_IN_DAY \div TicksPerDay seconds.  A datetime is a record        *)
(* [t, aware]; an ISO string is a record [kind, t, aware].                 *)
(***************************************************************************)
EXTENDS Integers, Sequences, FiniteSets, TLC

\* ------------------------------------------------------------- bounds
TicksPerDay == 2
MaxClock == 1
MaxObs == 2

\* -------------------------------------------------- program constants
SECONDS_IN_DAY == 86400
MinNumDays == 1
DefaultNumDays == 2
MaxNumDays == 30

TickSeconds == SECONDS_IN_DAY \div TicksPerDay

\* A time more than MaxNumDays days before the first instant of the clock:
\* the integration was last run over a month ago.
LongAgo == 0 - (MaxNumDays * TicksPerDay + 1)

\* The values of num_days an action configuration is given.
NumDaysChoices == {MinNumDays, MaxNumDays}

VARIABLES
    clock,       \* the current UTC time, in ticks
    source,      \* the observations eBird holds, in the order it returns them
    obsState,    \* stored state "latest_observation_datetime" of pull_events
    execState,   \* stored state "latest_execution_time" of pull_events
    runs,        \* the locals and position of each run of action_pull_events
    prev,        \* what the previous run fetched, sent and got, as it ended
    delivered    \* submission ids the sink has accepted

vars == <<clock, source, obsState, execState, runs, prev, delivered>>

\* The triggers: the second one is used only where runs may overlap.
Runs == {1, 2}

\* The run of the first trigger.
run == runs[1]

\* ------------------------------------------------ datetimes and strings
NoState == [kind |-> "none", t |-> 0, aware |-> FALSE]
Malformed == [kind |-> "bad", t |-> 0, aware |-> FALSE]
IsoString(t, aware) == [kind |-> "iso", t |-> t, aware |-> aware]

\* datetime.isoformat(): the offset is written only for an aware datetime.
isoformat(dt) == IsoString(dt.t, dt.aware)

\* datetime.now(tz=timezone.utc)
utcnow == [t |-> clock, aware |-> TRUE]

\* The validators clean_latest_observation_datetime and
\* clean_latest_execution_time under parse_obj: fromisoformat, then a naive
\* value is taken as UTC.  ok = FALSE is a ValidationError.
parse_state(saved) ==
    IF saved.kind = "iso"
    THEN [ok |-> TRUE, dt |-> [t |-> saved.t, aware |-> TRUE]]
    ELSE [ok |-> FALSE, dt |-> [t |-> 0, aware |-> FALSE]]

\* Python truthiness of what get_state returns: nothing stored is falsy.
Truthy(saved) == saved.kind # "none"

\* math.ceil(n / d) for d > 0.
Ceil(n, d) == 0 - ((0 - n) \div d)

Max2(a, b) == IF a >= b THEN a ELSE b


\* ------------------------------------------------------ lookback window
\* The days to look back: from the stored latest_execution_time to now,
\* rounded up and at least 1; the configured num_days when nothing usable
\* is stored.
lookback_days_floor(saved, now, num_days) ==
    IF Truthy(saved)
    THEN LET p == parse_state(saved) IN
         IF ~p.ok
         THEN num_days
         ELSE Max2(1, ((now.t - p.dt.t) * TickSeconds) \div SECONDS_IN_DAY)
    ELSE num_days

lookback_days(saved, now, num_days) ==
    IF Truthy(saved)
    THEN LET p == parse_state(saved) IN
         IF ~p.ok
         THEN num_days
         ELSE LET delta == (now.t - p.dt.t) * TickSeconds
                  days_difference == Ceil(delta, SECONDS_IN_DAY)
              IN  Max2(1, days_difference)
    ELSE num_days

\* ------------------------------------------------------- source client
\* What a query with params.back = back returns at the current instant:
\* the observations of the last `back` days, in the source's order.
\* A unit scoped to a species code (the last path segment) returns that
\* species only; AllSpecies is the unit without the segment.
AllSpecies == "*"

recent_observations(back, specie) ==
    SelectSeq(source,
              LAMBDA ob : /\ ob.obsDt.t * TickSeconds
                               >= clock * TickSeconds - back * SECONDS_IN_DAY
                           /\ specie \in {AllSpecies, ob.speciesCode})

\* species_code.split(","): a species filter is held as its codes and the
\* commas between them.
split_codes(species_code) == SelectSeq(species_code, LAMBDA c : c # ",")

\* The units _get_recent_observations issues, in order: one per code of the
\* species filter, or one for all species when there is no filter.
unsplit_units(species_code) ==
    IF species_code # <<>> THEN <<species_code[1]>> ELSE <<AllSpecies>>

query_units(species_code) ==
    IF species_code # <<>> THEN split_codes(species_code) ELSE <<AllSpecies>>

\* parse_obj_as(eBirdObservation, ob) raises ValidationError for a record
\* that lacks a required field or holds a malformed one.  The generator
\* yields the records of a unit one by one, so those before the first such
\* record reach the loop of action_pull_events before the error does.
validation_never_fails(obs) == FALSE

validation_fails(obs) == \E i \in DOMAIN obs : ~obs[i].valid

yielded(obs) ==
    IF validation_fails(obs)
    THEN LET bad == CHOOSE i \in DOMAIN obs :
                       ~obs[i].valid /\ \A j \in 1..(i - 1) : obs[j].valid
         IN  SubSeq(obs, 1, bad - 1)
    ELSE obs

\* eBirdObservation with its validator clean_obsDt: the string is parsed, a
\* naive value is taken as UTC, and the field holds an aware datetime.
eBirdObservation(ob) ==
    [subId |-> ob.subId, speciesCode |-> ob.speciesCode,
     obsDt |-> [t |-> ob.obsDt.t, aware |-> TRUE]]

_transform_ebird_to_gundi_event(obs) ==
    [submission_id |-> obs.subId, species_code |-> obs.speciesCode,
     recorded_at |-> obs.obsDt]

\* The async for loop of action_pull_events over the generator.
transformed(obs) ==
    [i \in 1..Len(obs) |-> _transform_ebird_to_gundi_event(eBirdObservation(obs[i]))]

\* ---------------------------------------------------------------- filter
\* event["recorded_at"] > latest_observation_datetime, both aware.
IsNewerOrSame(event, latest) == event.recorded_at.t >= latest.t

IsNewer(event, latest) == event.recorded_at.t > latest.t

filter_drops_without_state(saved_state, events) ==
    IF Truthy(saved_state)
    THEN LET state == parse_state(saved_state) IN
         IF ~state.ok
         THEN events
         ELSE SelectSeq(events, LAMBDA event : IsNewer(event, state.dt))
    ELSE <<>>

filter_drops_on_parse_error(saved_state, events) ==
    IF Truthy(saved_state)
    THEN LET state == parse_state(saved_state) IN
         IF ~state.ok
         THEN <<>>
         ELSE SelectSeq(events, LAMBDA event : IsNewer(event, state.dt))
    ELSE events

filter_ebird_events(saved_state, events) ==
    IF Truthy(saved_state)
    THEN LET state == parse_state(saved_state) IN
         IF ~state.ok
         THEN events
         ELSE SelectSeq(events, LAMBDA event : IsNewer(event, state.dt))
    ELSE events

\* ------------------------------------------------------------ submission
\* What handle_transformed_data returns, as the collection the caller tests
\* with `"error" in response`: the sink's receipts, a response with an
\* "error" key, or the one-element list [msg] built when send_events_to_gundi
\* raises httpx.HTTPError.
SinkOutcomes == {"ok", "error", "http"}

HttpErrorMsg == "Sensors API returned error for integration_id"

handle_transformed_data(outcome) ==
    CASE outcome = "ok" -> {"object_id"}
      [] outcome = "error" -> {"error"}
      [] outcome = "http" -> {HttpErrorMsg}

\* max(filtered_events, key=recorded_at)["recorded_at"]
RECURSIVE MaxRecordedAt(_)
MaxRecordedAt(events) ==
    IF Len(events) = 1
    THEN events[1].recorded_at
    ELSE LET rest == MaxRecordedAt(Tail(events)) IN
         IF events[1].recorded_at.t >= rest.t THEN events[1].recorded_at ELSE rest

MinRecordedAt(events) ==
    LET i == CHOOSE i \in DOMAIN events :
                 \A j \in DOMAIN events : events[i].recorded_at.t <= events[j].recorded_at.t
    IN  events[i].recorded_at

LastRecordedAt(events) == events[Len(events)].recorded_at

latest_time(events) == MaxRecordedAt(events)

SubmissionIds(events) == {events[i].submission_id : i \in DOMAIN events}


\* -------------------------------------------------------- configuration
\* An optional field of PullEventsConfig: None, or a value.
Unset == [set |-> FALSE, v |-> 0]
Value(x) == [set |-> TRUE, v |-> x]

\* Python truthiness of an optional number (None and 0 are falsy) and of an
\* optional string (None and "" are falsy; "" stands for both).
TruthyNumber(x) == x.set /\ x.v # 0
TruthyString(x) == x # ""

REGION == "region"
LAT_LON_DISTANCE == "lat-lon-distance"

\* The fields a new PullEventsConfig has.
DefaultConfig ==
    [search_parameter |-> LAT_LON_DISTANCE,
     latitude |-> Unset, longitude |-> Unset, distance |-> Unset,
     num_days |-> DefaultNumDays,
     region_code |-> "",
     species_code |-> <<>>]

\* The action configurations a run is given: a region search over all
\* species; a point search for two species codes that also carries a region
\* code; a region search without region code (nothing populated); a point
\* search without distance; a point search on the equator (latitude 0.0 is
\* within the bounds of the field).
RegionConfig ==
    [DefaultConfig EXCEPT !.search_parameter = REGION, !.region_code = "US",
                          !.num_days = MinNumDays]
PointConfig ==
    [DefaultConfig EXCEPT !.latitude = Value(1), !.longitude = Value(1),
                          !.distance = Value(1), !.region_code = "US",
                          !.species_code = <<"mallar3", ",", "amewoo">>,
                          !.num_days = MaxNumDays]
RegionWithoutCode == [DefaultConfig EXCEPT !.search_parameter = REGION]
PointWithoutDistance ==
    [DefaultConfig EXCEPT !.latitude = Value(1), !.longitude = Value(1)]

PointAtEquator ==
    [DefaultConfig EXCEPT !.latitude = Value(0), !.longitude = Value(1),
                          !.distance = Value(1)]

Configs ==
    {RegionConfig, PointConfig, RegionWithoutCode, PointWithoutDistance,
     PointAtEquator}

\* The check of the configuration against search_parameter: TRUE when
\* ConfigurationValidationError is raised.
config_error_ignores_distance(cfg) ==
    IF cfg.search_parameter = REGION
    THEN ~TruthyString(cfg.region_code)
    ELSE ~TruthyNumber(cfg.latitude) \/ ~TruthyNumber(cfg.longitude)

config_error_ignores_region(cfg) ==
    IF cfg.search_parameter = REGION
    THEN FALSE
    ELSE \/ ~TruthyNumber(cfg.latitude)
         \/ ~TruthyNumber(cfg.longitude)
         \/ ~TruthyNumber(cfg.distance)

config_error(cfg) ==
    IF cfg.search_parameter = REGION
    THEN ~TruthyString(cfg.region_code)
    ELSE \/ ~TruthyNumber(cfg.latitude)
         \/ ~TruthyNumber(cfg.longitude)
         \/ ~TruthyNumber(cfg.distance)

\* ---------------------------------------------------------- control flow
\* if transformed_events: ... else: nothing to submit.
after_fetch_always_filters(events) == "filter"

after_fetch_always_sends(events) == "send"

after_fetch(events) == IF events # <<>> THEN "filter" ELSE "save"

\* if filtered_events: ... else: nothing new to submit.
after_filter(filtered) == IF filtered # <<>> THEN "send" ELSE "save"

\* An exception of a query unit is not caught: it leaves action_pull_events.
fetch_error_is_skipped(events) == after_fetch(events)

after_fetch_error(events) == "aborted"

\* ------------------------------------------------------------ the state
Unread == [kind |-> "unread", t |-> 0, aware |-> FALSE]

\* The locals of a run before its first statement.  The fields from seen on
\* record the run for the properties; the code does not read them: the source
\* as the last query unit found it, the query units issued, the unit that
\* failed, the unit that returned an invalid record, the raw records the
\* units returned, the batch handed to the sink, the calls of the sink, what
\* the sink did, the stored watermark when the run began, the reads and
\* writes of the stored watermark and the units issued before its read.
FreshRun ==
    [pc |-> "idle",
     config |-> DefaultConfig,
     num_days |-> DefaultNumDays,
     saved_latest_execution_time |-> Unread,
     now |-> [t |-> 0, aware |-> TRUE],
     lookback_days_to_fetch |-> 0,
     transformed_events |-> <<>>,
     saved_state |-> Unread,
     filtered_events |-> <<>>,
     response |-> {},
     events_extracted |-> 0,
     seen |-> <<>>,
     units |-> <<>>,
     failed_unit |-> 0,
     invalid_unit |-> 0,
     returned |-> <<>>,
     sent |-> <<>>,
     sink_calls |-> 0,
     outcome |-> "none",
     obs_at_start |-> Unread,
     reads |-> 0,
     writes |-> 0,
     units_at_read |-> 0]

\* What is kept of a run when the next one starts.
Summary(r) ==
    [outcome |-> r.outcome,
     seen |-> r.seen,
     transformed_events |-> r.transformed_events,
     sent |-> r.sent]

\* What the state store can hold when the integration is first observed:
\* nothing, a blob that does not deserialize, or a timestamp written long
\* ago (by a version that wrote it without an offset).
Init ==
    /\ clock = 0
    /\ source = <<>>
    /\ obsState \in {NoState, Malformed, IsoString(LongAgo, FALSE)}
    /\ execState \in {NoState, Malformed, IsoString(LongAgo, FALSE)}
    /\ runs = [r \in Runs |-> FreshRun]
    /\ prev = Summary(FreshRun)
    /\ delivered = {}

\* --------------------------------------------------------- environment
\* The clock is read by the first and the last step of a run and the source
\* by the query units: the environment moves before one of these steps.
Resting == \A r \in Runs : runs[r].pc \in {"idle", "done", "aborted"}
ClockTurn == Resting \/ \E r \in Runs : runs[r].pc = "save"
SourceTurn == Resting \/ \E r \in Runs : runs[r].pc = "fetch"

AdvanceClock ==
    /\ ClockTurn
    /\ clock < MaxClock
    /\ clock' = clock + 1
    /\ UNCHANGED <<source, obsState, execState, runs, prev, delivered>>

\* The species of the checklists alternate.
SpeciesOf(subId) == IF subId % 2 = 1 THEN "amewoo" ELSE "mallar3"

\* A birder submits a checklist: its observation time is now or earlier.
\* The record the source serves for it may be one that does not validate.
AddObservation(t, valid) ==
    /\ SourceTurn
    /\ Len(source) < MaxObs
    /\ source' = Append(source, [subId |-> Len(source) + 1,
                                 speciesCode |-> SpeciesOf(Len(source) + 1),
                                 obsDt |-> IsoString(t, FALSE),
                                 valid |-> valid])
    /\ UNCHANGED <<clock, obsState, execState, runs, prev, delivered>>

\* ----------------------------------------------------- action_pull_events
\* The trigger starts run r when it is not in progress; the run reads
\* latest_execution_time, computes the lookback and checks the configuration
\* (no statement between them suspends).
Start(r, cfg) ==
    /\ runs[r].pc \in {"idle", "done", "aborted"}
    /\ prev' = Summary(runs[r])
    /\ runs' = [runs EXCEPT ![r] =
                 [FreshRun EXCEPT
                    !.pc = IF config_error(cfg) THEN "aborted" ELSE "fetch",
                    !.outcome = IF config_error(cfg) THEN "config_error" ELSE "none",
                    !.config = cfg,
                    !.num_days = cfg.num_days,
                    !.saved_latest_execution_time = execState,
                    !.now = utcnow,
                    !.lookback_days_to_fetch =
                        lookback_days(execState, utcnow, cfg.num_days),
                    !.obs_at_start = obsState]]
    /\ UNCHANGED <<clock, source, obsState, execState, delivered>>

\* The next query unit of the generator is issued and answered; its records
\* are validated and transformed; a record that does not validate ends the
\* run with the ValidationError.  After the last unit the run goes on.
FetchUnit(r) ==
    LET me == runs[r]
        plan == query_units(me.config.species_code)
        k == Len(me.units) + 1
        obs == recent_observations(me.lookback_days_to_fetch, plan[k])
        events == me.transformed_events \o transformed(yielded(obs))
    IN  /\ me.pc = "fetch"
        /\ runs' = [runs EXCEPT ![r] =
                     IF validation_fails(obs)
                     THEN [me EXCEPT
                            !.units = Append(me.units, plan[k]),
                            !.seen = source,
                            !.returned = me.returned \o obs,
                            !.transformed_events = events,
                            !.invalid_unit = k,
                            !.outcome = "invalid_record",
                            !.pc = "aborted"]
                     ELSE [me EXCEPT
                            !.units = Append(me.units, plan[k]),
                            !.seen = source,
                            !.returned = me.returned \o obs,
                            !.transformed_events = events,
                            !.pc = IF k = Len(plan) THEN after_fetch(events)
                                   ELSE "fetch"]]
        /\ UNCHANGED <<clock, source, obsState, execState, prev, delivered>>

\* The next query unit is issued and r.raise_for_status() raises.
FetchFails(r) ==
    LET me == runs[r]
        plan == query_units(me.config.species_code)
        k == Len(me.units) + 1
    IN  /\ me.pc = "fetch"
        /\ runs' = [runs EXCEPT ![r] =
                     [me EXCEPT
                        !.units = Append(me.units, plan[k]),
                        !.failed_unit = k,
                        !.outcome = "aborted",
                        !.pc = after_fetch_error(me.transformed_events)]]
        /\ UNCHANGED <<clock, source, obsState, execState, prev, delivered>>

\* filter_ebird_events reads the stored watermark and filters.
Filter(r) ==
    LET me == runs[r]
        filtered == filter_ebird_events(obsState, me.transformed_events)
    IN  /\ me.pc = "filter"
        /\ runs' = [runs EXCEPT ![r] =
                     [me EXCEPT
                        !.saved_state = obsState,
                        !.reads = me.reads + 1,
                        !.units_at_read = Len(me.units),
                        !.filtered_events = filtered,
                        !.pc = after_filter(filtered)]]
        /\ UNCHANGED <<clock, source, obsState, execState, prev, delivered>>

\* handle_transformed_data: the sink accepts the batch, answers with an
\* error, or the request raises httpx.HTTPError.
Send(r, outcome) ==
    LET me == runs[r] IN
    /\ me.pc = "send"
    /\ runs' = [runs EXCEPT ![r] =
                 [me EXCEPT
                    !.sent = me.filtered_events,
                    !.sink_calls = me.sink_calls + 1,
                    !.outcome = outcome,
                    !.response = handle_transformed_data(outcome),
                    !.pc = "commit"]]
    /\ delivered' = IF outcome = "ok"
                    THEN delivered \cup SubmissionIds(me.filtered_events)
                    ELSE delivered
    /\ UNCHANGED <<clock, source, obsState, execState, prev>>

\* The check of the response and the write of the watermark.
Commit(r) ==
    LET me == runs[r] IN
    /\ me.pc = "commit"
    /\ IF "error" \in me.response
       THEN /\ runs' = [runs EXCEPT ![r] =
                         [me EXCEPT !.events_extracted = 0, !.pc = "save"]]
            /\ UNCHANGED obsState
       ELSE /\ obsState' = isoformat(latest_time(me.filtered_events))
            /\ runs' = [runs EXCEPT ![r] =
                         [me EXCEPT
                            !.writes = me.writes + 1,
                            !.events_extracted = me.events_extracted
                                                   + Len(me.filtered_events),
                            !.pc = "save"]]
    /\ UNCHANGED <<clock, source, execState, prev, delivered>>

\* The write of latest_execution_time and the return.
SaveExecutionTime(r) ==
    LET me == runs[r] IN
    /\ me.pc = "save"
    /\ execState' = isoformat(utcnow)
    /\ runs' = [runs EXCEPT ![r] =
                 [me EXCEPT
                    !.pc = "done",
                    !.outcome = IF me.outcome = "none" THEN "nothing" ELSE me.outcome]]
    /\ UNCHANGED <<clock, source, obsState, prev, delivered>>

\* One trigger at a time: the runs do not overlap.  The records the source
\* serves here all validate.
Next ==
    \/ AdvanceClock
    \/ \E t \in 0..clock : AddObservation(t, TRUE)
    \/ \E cfg \in Configs : Start(1, cfg)
    \/ FetchUnit(1)
    \/ FetchFails(1)
    \/ Filter(1)
    \/ \E outcome \in SinkOutcomes : Send(1, outcome)
    \/ Commit(1)
    \/ SaveExecutionTime(1)

Spec == Init /\ [][Next]_vars

\* ------------------------------------------------- overlapping triggers
\* Two triggers for the same integration, each fired once, the one named 1
\* first: nothing in action_pull_events takes a lock, so the steps of the
\* two runs interleave at every await.  Both runs get the configuration of
\* the integration, a region search for all species; the overlap is shorter
\* than a tick of the clock, and what the source receives after both runs
\* ended is not followed.
Started(r) == runs[r].pc # "idle"
Ended(r) == runs[r].pc \in {"done", "aborted"}

StartOnce(r) ==
    /\ ~Started(r)
    /\ \A other \in Runs : other < r => Started(other)
    /\ Start(r, RegionConfig)

NextOverlap ==
    \/ (\A r \in Runs : ~Started(r)) /\ AdvanceClock
    \/ (\E r \in Runs : ~Ended(r)) /\ \E t \in 0..clock : AddObservation(t, TRUE)
    \/ \E r \in Runs : StartOnce(r)
    \/ \E r \in Runs : FetchUnit(r)
    \/ \E r \in Runs : FetchFails(r)
    \/ \E r \in Runs : Filter(r)
    \/ \E r \in Runs, outcome \in SinkOutcomes : Send(r, outcome)
    \/ \E r \in Runs : Commit(r)
    \/ \E r \in Runs : SaveExecutionTime(r)

SpecOverlap == Init /\ [][NextOverlap]_vars

\* ------------------------------------------------- records that fail
\* One run of the first trigger over a source that may serve records which
\* do not validate.
NextValidation ==
    \/ AdvanceClock
    \/ \E t \in 0..clock, valid \in BOOLEAN : AddObservation(t, valid)
    \/ \E cfg \in Configs : ~Started(1) /\ Start(1, cfg)
    \/ FetchUnit(1)
    \/ FetchFails(1)
    \/ Filter(1)
    \/ \E outcome \in SinkOutcomes : Send(1, outcome)
    \/ Commit(1)
    \/ SaveExecutionTime(1)

SpecValidation == Init /\ [][NextValidation]_vars

\* ------------------------------------- _transform_ebird_to_gundi_event
\* The function called on its own, as the unit test calls it: the argument
\* is any object with the attributes of an eBirdObservation, and its obsDt
\* is a datetime that may be naive.  Here source holds the arguments and
\* transformed_events of the first run the results, call by call.
SpeciesCodes == {"amewoo", "mallar3"}

Observations ==
    [subId : 1..MaxObs, speciesCode : SpeciesCodes,
     obsDt : [t : 0..MaxClock, aware : BOOLEAN]]

ObservationLists ==
    UNION {[1..n -> Observations] : n \in 0..MaxObs}

InitTransform ==
    /\ clock = 0
    /\ source \in ObservationLists
    /\ obsState = NoState
    /\ execState = NoState
    /\ runs = [r \in Runs |-> FreshRun]
    /\ prev = Summary(FreshRun)
    /\ delivered = {}

TransformCall ==
    LET k == Len(run.transformed_events) + 1 IN
    /\ k <= Len(source)
    /\ runs' = [runs EXCEPT ![1].transformed_events =
                   Append(@, _transform_ebird_to_gundi_event(source[k]))]
    /\ UNCHANGED <<clock, source, obsState, execState, prev, delivered>>

NextTransform == TransformCall

SpecTransform == InitTransform /\ [][NextTransform]_vars


\* ===================================================================
\* Properties
\* ===================================================================
Finished == run.pc = "done"
AfterSend == run.pc \in {"commit", "save", "done"}
ForwardFailed(outcome) == outcome \in {"error", "http"}

\* batch holds, in the order of events, exactly the events later than w.
IsTheNewerEvents(batch, events, w) ==
    \E f \in [DOMAIN batch -> DOMAIN events] :
        /\ \A i, j \in DOMAIN batch : i < j => f[i] < f[j]
        /\ \A i \in DOMAIN batch : batch[i] = events[f[i]]
        /\ {f[i] : i \in DOMAIN batch}
             = {k \in DOMAIN events : events[k].recorded_at.t > w}

\* C1: when the forward of a run's batch fails (the sink answers with an
\* error, or the request raises httpx.HTTPError), the stored
\* latest_observation_datetime after the run is what it was before the run.
WatermarkKeptOnFailedForward ==
    (Finished /\ ForwardFailed(run.outcome)) => obsState = run.obs_at_start

\* C2: when the forward of the previous run failed and the source holds the
\* same data, the batch of the next run contains every event of the failed
\* batch.
FailedBatchIsForwardedAgain ==
    (Finished /\ ForwardFailed(prev.outcome) /\ run.seen = prev.seen)
        => \A i \in DOMAIN prev.sent :
               \E j \in DOMAIN run.sent : run.sent[j] = prev.sent[i]

\* C3: no observation is lost: when a run ends without a failed forward,
\* every observation the source returned to it has been accepted by the sink,
\* in this run or in an earlier one (a later run cannot make up for it: it
\* meets the same or a later watermark).
NoObservationLost ==
    (Finished /\ run.outcome \in {"ok", "nothing"})
        => SubmissionIds(run.transformed_events) \subseteq delivered

\* C4: with a valid stored watermark W, the batch forwarded is exactly the
\* fetched events with recorded_at > W, in arrival order; an event with
\* recorded_at <= W, also one equal to W, is left out.
ForwardedIsExactlyTheNewer ==
    run.saved_state.kind = "iso"
        => /\ IsTheNewerEvents(run.filtered_events, run.transformed_events,
                               run.saved_state.t)
           /\ AfterSend => run.sent = run.filtered_events

ForwardedIsExactlyTheNewerWitness ==
    /\ run.saved_state.kind = "iso"
    /\ run.pc = "commit"
    /\ Len(run.sent) = 1
    /\ \E k \in DOMAIN run.transformed_events :
           run.transformed_events[k].recorded_at.t = run.saved_state.t

\* C5: with no stored watermark, filter_ebird_events returns its input
\* unchanged and every fetched event is in the forwarded batch.
NoWatermarkKeepsAll ==
    run.saved_state.kind = "none"
        => /\ run.filtered_events = run.transformed_events
           /\ AfterSend => run.sent = run.transformed_events

NoWatermarkKeepsAllWitness ==
    /\ run.saved_state.kind = "none"
    /\ run.pc = "commit"
    /\ Len(run.sent) = 2

\* C6, as stated: a run that fetches the same observations as the run before
\* it forwards nothing and leaves the stored watermark unchanged.
SecondRunForwardsNothing ==
    (Finished /\ prev.outcome \in {"ok", "nothing", "error", "http"}
              /\ run.transformed_events = prev.transformed_events)
        => /\ run.sent = <<>>
           /\ obsState = run.obs_at_start

\* C6, amended: a run that fetches the same observations as the run before
\* it, whose forward did not fail (it succeeded, or there was nothing to
\* forward), forwards nothing and leaves the stored watermark unchanged.
SecondRunAfterSuccessForwardsNothing ==
    (Finished /\ prev.outcome \in {"ok", "nothing"}
              /\ run.transformed_events = prev.transformed_events)
        => /\ run.sent = <<>>
           /\ obsState = run.obs_at_start

SecondRunAfterSuccessWitness ==
    /\ Finished
    /\ prev.outcome = "ok"
    /\ run.transformed_events = prev.transformed_events
    /\ Len(prev.sent) = 2

\* C7: after a run whose forward succeeded, the stored watermark is the
\* greatest recorded_at of the forwarded batch, whatever the order of the
\* batch.
WatermarkIsMaxOfBatch ==
    (run.pc \in {"save", "done"} /\ run.outcome = "ok")
        => /\ obsState.kind = "iso"
           /\ obsState.aware
           /\ \A i \in DOMAIN run.sent : run.sent[i].recorded_at.t <= obsState.t
           /\ \E i \in DOMAIN run.sent : run.sent[i].recorded_at.t = obsState.t

WatermarkIsMaxOfBatchWitness ==
    /\ Finished
    /\ run.outcome = "ok"
    /\ Len(run.sent) = 2
    /\ run.sent[1].recorded_at.t > run.sent[2].recorded_at.t
    /\ obsState.t = run.sent[1].recorded_at.t

\* C8: the lookback days given to the source (params.back) is at least 1 and
\* at most the configured maximum of 30.
LookbackWithinBounds ==
    run.pc # "idle" => run.lookback_days_to_fetch \in MinNumDays..MaxNumDays

MalformedWatermarkIsRecovered ==
    run.saved_state.kind = "bad"
        => /\ run.pc # "aborted"
           /\ run.filtered_events = run.transformed_events
           /\ AfterSend => run.sent = run.transformed_events
           /\ (run.pc \in {"save", "done"} /\ run.outcome = "ok")
                 => /\ obsState.kind = "iso"
                    /\ obsState = isoformat(parse_state(obsState).dt)

MalformedWatermarkIsRecoveredWitness ==
    /\ run.saved_state.kind = "bad"
    /\ run.obs_at_start = Malformed
    /\ Finished
    /\ run.outcome = "ok"
    /\ obsState.kind = "iso"


\* ------------------------------------------------------------------
\* The last query unit of the run has been answered.
FetchAnswered ==
    /\ run.units # <<>>
    /\ run.failed_unit = 0
    /\ run.invalid_unit = 0
    /\ run.pc # "fetch"

\* C11: a run whose fetch returns no observation ends without error, never
\* calls the sink, returns an event count of 0 and leaves the stored
\* watermark as it was.
EmptyFetchEndsQuietly ==
    (FetchAnswered /\ run.transformed_events = <<>>)
        => /\ run.pc \in {"save", "done"}
           /\ run.outcome \in {"none", "nothing"}
           /\ run.sink_calls = 0
           /\ run.events_extracted = 0
           /\ run.writes = 0
           /\ obsState = run.obs_at_start

EmptyFetchEndsQuietlyWitness ==
    /\ Finished
    /\ Len(run.units) = 2
    /\ run.transformed_events = <<>>
    /\ run.events_extracted = 0
    /\ obsState.kind = "iso"

\* The selected search mode lacks a field it requires.
LacksRequiredField(cfg) ==
    \/ cfg.search_parameter = REGION /\ cfg.region_code = ""
    \/ /\ cfg.search_parameter = LAT_LON_DISTANCE
       /\ ~cfg.latitude.set \/ ~cfg.longitude.set \/ ~cfg.distance.set

\* C12: when the selected search mode lacks a required field, the run fails
\* with a configuration error before any request to the source, any forward
\* and any write of state: what is stored is unchanged.
ConfigErrorLeavesNoTrace ==
    (run.pc # "idle" /\ LacksRequiredField(run.config))
        => /\ run.pc = "aborted"
           /\ run.outcome = "config_error"
           /\ run.units = <<>>
           /\ run.sink_calls = 0
           /\ run.writes = 0
           /\ obsState = run.obs_at_start
           /\ execState = run.saved_latest_execution_time

ConfigErrorLeavesNoTraceWitness ==
    /\ run.outcome = "config_error"
    /\ run.config = PointWithoutDistance
    /\ prev.outcome = "ok"
    /\ obsState.kind = "iso"

\* C13: when a query unit fails, also the unit of a later species code after
\* earlier codes returned records, the run aborts: nothing is forwarded and
\* the stored watermark is unchanged.
FetchErrorAbortsRun ==
    run.failed_unit > 0
        => /\ run.pc = "aborted"
           /\ run.sink_calls = 0
           /\ run.sent = <<>>
           /\ run.writes = 0
           /\ obsState = run.obs_at_start
           /\ execState = run.saved_latest_execution_time

FetchErrorAbortsRunWitness ==
    /\ run.failed_unit = 2
    /\ run.transformed_events # <<>>
    /\ run.pc = "aborted"

\* The codes of a species filter: every other element, from the first.
CodesOf(species_code) ==
    [i \in 1..((Len(species_code) + 1) \div 2) |-> species_code[2 * i - 1]]

ExpectedUnits(cfg) ==
    IF cfg.species_code = <<>> THEN <<AllSpecies>> ELSE CodesOf(cfg.species_code)

\* Position of a unit among the expected units.
UnitIndex(cfg, code) ==
    CHOOSE i \in DOMAIN ExpectedUnits(cfg) : ExpectedUnits(cfg)[i] = code

\* C14: for a species filter of n codes a run issues exactly n query units,
\* one per code in the order of the list and one after the other, and the
\* results are concatenated in that order before filtering; without a species
\* filter it issues exactly one unit.
QueryUnitsFollowCodes ==
    LET expected == ExpectedUnits(run.config) IN
    /\ Len(run.units) <= Len(expected)
    /\ \A i \in DOMAIN run.units : run.units[i] = expected[i]
    /\ FetchAnswered => run.units = expected
    /\ run.config.species_code # <<>>
         => \A i, j \in DOMAIN run.transformed_events :
               i < j => UnitIndex(run.config, run.transformed_events[i].species_code)
                          <= UnitIndex(run.config, run.transformed_events[j].species_code)
    /\ run.reads > 0 => run.units = expected

QueryUnitsFollowCodesWitness ==
    /\ Finished
    /\ run.units = <<"mallar3", "amewoo">>
    /\ Len(run.transformed_events) = 2
    /\ run.transformed_events[1].submission_id = 2
    /\ run.transformed_events[2].submission_id = 1

\* C15: the run returns the size of the forwarded batch when the forward
\* succeeded, and 0 when nothing was forwarded or the forward failed.
ReturnsForwardedCount ==
    Finished
        => run.events_extracted
             = IF run.outcome = "ok" THEN Len(run.sent) ELSE 0

RegionPopulated(cfg) == cfg.region_code # ""
PointPopulated(cfg) == cfg.latitude.set /\ cfg.longitude.set /\ cfg.distance.set

NoDuplicateAfterCommit ==
    run.pc = "send"
        => SubmissionIds(run.filtered_events) \cap delivered = {}

NoDuplicateAfterCommitWitness ==
    /\ run.pc = "send"
    /\ \E i \in DOMAIN run.transformed_events :
          /\ run.transformed_events[i].submission_id \in delivered
          /\ run.transformed_events[i].recorded_at.t = run.saved_state.t

\* C20, as stated: a run reads the watermark exactly once, before the first
\* request to the source, and writes it at most once, after the forward.
WatermarkReadOnceBeforeFetch ==
    /\ Finished => run.reads = 1
    /\ run.reads > 0 => run.units_at_read = 0
    /\ run.writes <= 1
    /\ run.writes > 0 => run.sink_calls > 0

\* C20, amended: a run reads the watermark at most once: once when the fetch
\* returned at least one event and not at all otherwise; the read comes after
\* the last request to the source was answered; the run writes the watermark
\* at most once, after the forward.
WatermarkReadOnceAfterFetch ==
    /\ run.reads <= 1
    /\ Finished => run.reads = IF run.transformed_events # <<>> THEN 1 ELSE 0
    /\ run.reads = 1 => /\ run.units_at_read = Len(run.units)
                        /\ run.units_at_read >= 1
                        /\ run.failed_unit = 0
    /\ run.writes <= 1
    /\ run.writes = 1 => run.sink_calls = 1 /\ run.pc \in {"save", "done"}

WatermarkReadOnceAfterFetchWitness ==
    /\ Finished
    /\ run.reads = 1
    /\ run.units_at_read = 2
    /\ run.writes = 1

\* ---------------------------------------------------------------- C16
\* C16: for every observation, one with a naive obsDt included, the event
\* _transform_ebird_to_gundi_event returns has a recorded_at that is
\* timezone-aware in UTC at the same instant (a naive obsDt taken as UTC),
\* and its other fields are those of the observation.
TransformReturnsAwareUtc ==
    \A k \in 1..Len(run.transformed_events) :
        LET event == run.transformed_events[k] IN
        /\ event.recorded_at = [t |-> source[k].obsDt.t, aware |-> TRUE]
        /\ event.submission_id = source[k].subId
        /\ event.species_code = source[k].speciesCode

\* ---------------------------------------------------------------- C19
\* The latest recorded_at among the events the sink has accepted.
DeliveredAt == {source[id].obsDt.t : id \in delivered}
Wrote(r) == runs[r].writes > 0

\* C19: with two overlapping runs the stored watermark, once a run has
\* written it, is the latest recorded_at of the batch of ONE of the runs
\* that wrote: each run writes the maximum of its own batch over whatever is
\* stored, no step compares or merges with the other run's write, so the
\* stored watermark can be below what was delivered.
OverlapWatermarkIsOneBatchMax ==
    (\E r \in Runs : Wrote(r)) =>
        \E r \in Runs :
            /\ Wrote(r)
            /\ obsState = isoformat(MaxRecordedAt(runs[r].sent))

\* The lost update: both runs forwarded their batch and ended, and the
\* stored watermark is lower than the recorded_at of a delivered event.
LostUpdateWitness ==
    /\ \A r \in Runs : runs[r].pc = "done" /\ runs[r].outcome = "ok" /\ Wrote(r)
    /\ obsState.kind = "iso"
    /\ \E t \in DeliveredAt : t > obsState.t

\* ---------------------------------------------------------------- C21
\* C21: in point mode the configuration error is raised only when latitude,
\* longitude or distance is unset; a point configuration with all three
\* set, latitude 0 or longitude 0 included, proceeds to the fetch.
PointErrorOnlyWhenUnset ==
    (run.pc # "idle" /\ run.config.search_parameter = LAT_LON_DISTANCE)
        => (run.outcome = "config_error"
              <=> (\/ ~run.config.latitude.set
                   \/ ~run.config.longitude.set
                   \/ ~run.config.distance.set))

\* ---------------------------------------------------------------- C22
\* C22: with non-overlapping runs the stored watermark never decreases:
\* every write of latest_observation_datetime over a value that parses
\* stores a strictly later timestamp.
WatermarkWriteIsLater ==
    [][(run'.writes = run.writes + 1 /\ obsState.kind = "iso")
          => (obsState'.kind = "iso" /\ obsState'.t > obsState.t)]_vars

\* A run has written the watermark over the one an earlier run wrote.
WatermarkWriteIsLaterWitness ==
    /\ prev.outcome = "ok"
    /\ run.writes = 1
    /\ run.saved_state.kind = "iso"
    /\ run.saved_state.t >= 0
    /\ obsState.kind = "iso"
    /\ obsState.t > run.saved_state.t

\* ---------------------------------------------------------------- C23
\* C23: when a raw record of the source does not validate into an
\* eBirdObservation the whole run aborts with the validation error: no
\* event is forwarded, the records that did validate included, and no
\* persisted state is written.
InvalidRecordAbortsRun ==
    (\E i \in DOMAIN run.returned : ~run.returned[i].valid)
        => /\ run.pc = "aborted"
           /\ run.outcome = "invalid_record"
           /\ run.sink_calls = 0
           /\ run.sent = <<>>
           /\ run.writes = 0
           /\ obsState = run.obs_at_start
           /\ execState = run.saved_latest_execution_time

\* The run was ended by an invalid record after records that validated.
InvalidRecordAbortsRunWitness ==
    /\ run.pc = "aborted"
    /\ \E i \in DOMAIN run.returned : ~run.returned[i].valid
    /\ run.invalid_unit > 0
    /\ run.transformed_events # <<>>
    /\ run.sink_calls = 0

=============================================================================
